---- MODULE Spec2Model ----
(***************************************************************************)
(* A model of wetcher's scheduler (src/main.rs, start) and of one polling   *)
(* cycle (src/main.rs, handle).                                             *)
(*                                                                         *)
(* start() spawns one task per configured job.  Each task loops forever:   *)
(* it awaits its tokio interval, then awaits handle() for a clone of the   *)
(* job's resource, logs the result and loops.  The main task awaits        *)
(* ctrl_c(); when that returns, start() returns and the runtime built by   *)
(* #[tokio::main] is dropped, which drops every spawned task at the await  *)
(* point it is suspended on.                                               *)
(*                                                                         *)
(* The steps of the model are the await points of the code: everything a   *)
(* task does between two awaits is one action.                             *)
(***************************************************************************)
EXTENDS Integers, Sequences, FiniteSets, TLC

\* Length of the observed run, in timer units.
MaxTime == 3

None == "none"

----------------------------------------------------------------------------
(* Configuration: AppConfig.resources, two jobs.                           *)

JobIds == {"A", "B"}

\* job::Resource values of the configuration.
UrlPage1 == [kind |-> "Url", loc |-> "https://example.com/list/page1"]
PathPage == [kind |-> "Path", loc |-> "./page.html"]

\* job::Job: the resource and the period of each job.
Jobs ==
    [j \in JobIds |->
        IF j = "A" THEN [resource |-> UrlPage1, period |-> 1]
                   ELSE [resource |-> PathPage, period |-> 2]]

----------------------------------------------------------------------------
(* Documents.  A fetched body is described by what the three collaborators *)
(* make of it: html::parse, the root query "//" and the continuation query.*)
(*   parse : TRUE when html::parse accepts the body                        *)
(*   roots : number of items the root query yields                         *)
(*   cont  : outcome of the continuation query on the whole tree:          *)
(*           kind "queryErr"  apply returned Err                           *)
(*           kind "empty"     the item set is empty                        *)
(*           kind "notNode"   the first item is not a node                 *)
(*           kind "treeNode"  the first item is a tree node                *)
(*           kind "nonAttr"   a non-tree node that is not an attribute     *)
(*           kind "attr"      an attribute node, with its value            *)

ContKinds == {"queryErr", "empty", "notNode", "treeNode", "nonAttr", "attr"}

Cont(k, v) == [kind |-> k, value |-> v]

\* Attribute values a continuation can carry: another page, from the root
\* and relative, and the page the job started from.
ContValues == {"/list/page2", "page2", "/list/page1"}

ContOutcomes ==
    {Cont(k, None) : k \in ContKinds \ {"attr"}} \cup {Cont("attr", v) : v \in ContValues}

Docs ==
    {[parse |-> FALSE, roots |-> 0, cont |-> Cont("empty", None)]}
    \cup {[parse |-> TRUE, roots |-> 0, cont |-> Cont("empty", None)]}
    \cup {[parse |-> TRUE, roots |-> 1, cont |-> c] : c \in ContOutcomes}

\* What a fetch can deliver when no document arrives.
FetchErrors == {"sendErr", "textErr", "ioErr"}

\* The record of a fetch that failed with e, and of no fetch at all.
Failed(e) == [err |-> e]
NoFetch == Failed(None)

IsDoc(g) == "parse" \in DOMAIN g

----------------------------------------------------------------------------
VARIABLES
    now,        \* time elapsed since start() created the intervals
    phase,      \* "running", "returned" (ctrl_c fired, the runtime is being
                \* dropped), "stopped" (the runtime is dropped)
    pc,         \* per job: the await point its task is at, or how it ended
    deadline,   \* per job: next deadline of its tokio Interval
    cycles,     \* per job: number of handle() calls made so far
    inflight,   \* per job: number of handle() calls that have not returned
    fetched,    \* per job: resources requested in the current/last cycle
    got,        \* per job: what the fetch of the current/last cycle delivered
    result,     \* per job: value handle() returned in the last cycle
    emitted,    \* per job: TRUE when the last cycle logged its target result
    found,      \* per job: continuation the last cycle reported
    ev          \* the call of a function of the evaluator under study, if any

vars == <<now, phase, pc, deadline, cycles, inflight, fetched, got, result,
          emitted, found, ev>>

\* The variables of the scheduler.
sched == <<now, phase, pc, deadline, cycles, inflight, fetched, got, result,
           emitted, found>>

\* No call of the evaluator is under study.
Idle == [op |-> "idle"]

\* Await points inside handle().
InFlight == {"send", "text", "read"}

\* A task that exists: it waits on its timer or is inside handle().
Alive == {"tick"} \cup InFlight

PcValues == {"tick"} \cup InFlight \cup {"panicked", "dropped", "cancelled", "abandoned"}

Results == {None, "Ok", "Send", "Io", "InvalidHtml"}

TypeOK ==
    /\ now \in 0..MaxTime
    /\ phase \in {"running", "returned", "stopped"}
    /\ pc \in [JobIds -> PcValues]
    /\ deadline \in [JobIds -> Nat]
    /\ cycles \in [JobIds -> Nat]
    /\ inflight \in [JobIds -> Nat]
    /\ \A j \in JobIds :
        /\ fetched[j] \in Seq({UrlPage1, PathPage})
        /\ got[j] \in Docs \cup {Failed(e) : e \in FetchErrors} \cup {NoFetch}
        /\ result[j] \in Results
        /\ emitted[j] \in BOOLEAN
        /\ found[j] \in ContValues \cup {None}

Init ==
    /\ now = 0
    /\ phase = "running"
    /\ pc = [j \in JobIds |-> "tick"]
    /\ deadline = [j \in JobIds |-> 0]
    /\ cycles = [j \in JobIds |-> 0]
    /\ inflight = [j \in JobIds |-> 0]
    /\ fetched = [j \in JobIds |-> <<>>]
    /\ got = [j \in JobIds |-> NoFetch]
    /\ result = [j \in JobIds |-> None]
    /\ emitted = [j \in JobIds |-> FALSE]
    /\ found = [j \in JobIds |-> None]
    /\ ev = Idle

----------------------------------------------------------------------------
(* The timer: tokio::time::interval(period).  Its first tick completes      *)
(* immediately; with the default missed-tick behaviour (Burst) every tick  *)
(* moves the deadline one period on from the previous deadline, so that a  *)
(* late tick is followed by the ticks that were missed.                    *)

Period(j) == Jobs[j].period

\* A timer whose deadline never moves on: every tick is due at once.
NextDeadlineStuck(d, p) == d

NextDeadline(d, p) == d + p

\* A scheduler that starts a drain on every tick without awaiting the
\* previous one.
TickReadyOverlap(j) ==
    /\ phase # "stopped"
    /\ pc[j] \in {"tick"} \cup InFlight
    /\ now >= deadline[j]

\* A scheduler that runs one drain at a time over all jobs.
TickReadySerial(j) ==
    /\ phase # "stopped"
    /\ pc[j] = "tick"
    /\ now >= deadline[j]
    /\ \A k \in JobIds : pc[k] \notin InFlight

\* `period.tick().await` of job j completes: its task is suspended there,
\* the runtime still polls tasks and the deadline is reached.
TickReady(j) ==
    /\ phase # "stopped"
    /\ pc[j] = "tick"
    /\ now >= deadline[j]

\* A cycle that resumes from where the previous crawl ended.
CycleResourceResume(j) ==
    IF found[j] # None THEN [kind |-> "Url", loc |-> found[j]] ELSE Jobs[j].resource

\* The resource a cycle of job j is given: `resource.clone()`.
CycleResource(j) == Jobs[j].resource

\* First await of handle(): the request for a Url, the file read for a Path.
FirstAwait(r) == IF r.kind = "Url" THEN "send" ELSE "read"

\* The loop body up to the first await inside handle(): the tick completes,
\* handle() is called with a clone of the job's resource and starts to fetch.
Tick(j) ==
    /\ TickReady(j)
    /\ pc' = [pc EXCEPT ![j] = FirstAwait(CycleResource(j))]
    /\ deadline' = [deadline EXCEPT ![j] = NextDeadline(@, Period(j))]
    /\ cycles' = [cycles EXCEPT ![j] = @ + 1]
    /\ inflight' = [inflight EXCEPT ![j] = @ + 1]
    /\ fetched' = [fetched EXCEPT ![j] = <<CycleResource(j)>>]
    /\ got' = [got EXCEPT ![j] = NoFetch]
    /\ result' = [result EXCEPT ![j] = None]
    /\ emitted' = [emitted EXCEPT ![j] = FALSE]
    /\ found' = [found EXCEPT ![j] = None]
    /\ UNCHANGED <<ev, now, phase>>

----------------------------------------------------------------------------
(* handle(): fetch, parse, evaluate the targets, look at the continuation. *)

\* HandleError of a failed fetch: `?` converts reqwest::Error into Send and
\* io::Error into Io.
ErrorOf(e) ==
    CASE e = "sendErr" -> "Send"
      [] e = "textErr" -> "Send"
      [] e = "ioErr" -> "Io"

\* The continuation handle() reports: the value of the first item of the
\* continuation query when that item is an attribute node, nothing otherwise.
ContinuationOf(c) == IF c.kind = "attr" THEN c.value ELSE None

\* A handle() that fails when it reports no continuation.
HandleDocumentStrict(d) ==
    IF ~d.parse
    THEN [end |-> "return", result |-> "InvalidHtml", emitted |-> FALSE, found |-> None]
    ELSE IF d.roots = 0
    THEN [end |-> "panic", result |-> None, emitted |-> FALSE, found |-> None]
    ELSE IF d.cont.kind # "attr"
    THEN [end |-> "return", result |-> "InvalidHtml", emitted |-> TRUE, found |-> None]
    ELSE [end |-> "return", result |-> "Ok", emitted |-> TRUE,
          found |-> ContinuationOf(d.cont)]

\* handle() from the received body to its end.  A body html::parse rejects
\* returns InvalidHtml; indexing the first item of an empty root item set
\* panics; otherwise the target result is logged, the continuation is looked
\* at and Ok(()) is returned.
HandleDocument(d) ==
    IF ~d.parse
    THEN [end |-> "return", result |-> "InvalidHtml", emitted |-> FALSE, found |-> None]
    ELSE IF d.roots = 0
    THEN [end |-> "panic", result |-> None, emitted |-> FALSE, found |-> None]
    ELSE [end |-> "return", result |-> "Ok", emitted |-> TRUE,
          found |-> ContinuationOf(d.cont)]

\* handle() returns Err(e) from the await it is suspended on; the task logs
\* the failure and goes back to await its timer.
FailWith(j, e) ==
    /\ pc' = [pc EXCEPT ![j] = "tick"]
    /\ inflight' = [inflight EXCEPT ![j] = @ - 1]
    /\ got' = [got EXCEPT ![j] = Failed(e)]
    /\ result' = [result EXCEPT ![j] = ErrorOf(e)]
    /\ UNCHANGED <<ev, now, phase, deadline, cycles, fetched, emitted, found>>

\* `client.get(url).send().await?` fails.
SendFail(j) ==
    /\ pc[j] = "send"
    /\ FailWith(j, "sendErr")

\* `client.get(url).send().await?` delivers a response.
SendOk(j) ==
    /\ pc[j] = "send"
    /\ pc' = [pc EXCEPT ![j] = "text"]
    /\ UNCHANGED <<ev, now, phase, deadline, cycles, inflight, fetched, got, result,
                   emitted, found>>

\* `.text().await?` fails.
TextFail(j) ==
    /\ pc[j] = "text"
    /\ FailWith(j, "textErr")

\* `fs::read_to_string(path).await?` fails.
ReadFail(j) ==
    /\ pc[j] = "read"
    /\ FailWith(j, "ioErr")

\* A handle() that requests the resource again whenever a Url document
\* reports a continuation.
ReceiveRefetch(j, d) ==
    /\ pc[j] \in {"text", "read"}
    /\ LET h == HandleDocument(d)
           follow == h.found # None /\ Jobs[j].resource.kind = "Url"
       IN
        /\ pc' = [pc EXCEPT ![j] = IF h.end = "panic" THEN "panicked"
                                   ELSE IF follow THEN "send" ELSE "tick"]
        /\ inflight' = [inflight EXCEPT ![j] = IF follow THEN @ ELSE @ - 1]
        /\ got' = [got EXCEPT ![j] = d]
        /\ result' = [result EXCEPT ![j] = IF follow THEN None ELSE h.result]
        /\ emitted' = [emitted EXCEPT ![j] = h.emitted]
        /\ found' = [found EXCEPT ![j] = h.found]
    /\ UNCHANGED <<ev, now, phase, deadline, cycles, fetched>>

\* A handle() that queues and fetches a reported continuation whatever the
\* kind of the resource.
ReceiveExpand(j, d) ==
    /\ pc[j] \in {"text", "read"}
    /\ LET h == HandleDocument(d)
           follow == h.found # None
       IN
        /\ pc' = [pc EXCEPT ![j] = IF h.end = "panic" THEN "panicked"
                                   ELSE IF follow THEN FirstAwait(Jobs[j].resource)
                                   ELSE "tick"]
        /\ inflight' = [inflight EXCEPT ![j] = IF follow THEN @ ELSE @ - 1]
        /\ got' = [got EXCEPT ![j] = d]
        /\ result' = [result EXCEPT ![j] = IF follow THEN None ELSE h.result]
        /\ emitted' = [emitted EXCEPT ![j] = h.emitted]
        /\ found' = [found EXCEPT ![j] = h.found]
        /\ fetched' = [fetched EXCEPT ![j] =
                IF follow
                THEN Append(@, [kind |-> Jobs[j].resource.kind, loc |-> h.found])
                ELSE @]
    /\ UNCHANGED <<ev, now, phase, deadline, cycles>>

\* The body arrives and the rest of handle() runs; it has no further await.
Receive(j, d) ==
    /\ pc[j] \in {"text", "read"}
    /\ LET h == HandleDocument(d) IN
        /\ pc' = [pc EXCEPT ![j] = IF h.end = "panic" THEN "panicked" ELSE "tick"]
        /\ inflight' = [inflight EXCEPT ![j] = @ - 1]
        /\ got' = [got EXCEPT ![j] = d]
        /\ result' = [result EXCEPT ![j] = h.result]
        /\ emitted' = [emitted EXCEPT ![j] = h.emitted]
        /\ found' = [found EXCEPT ![j] = h.found]
    /\ UNCHANGED <<ev, now, phase, deadline, cycles, fetched>>

----------------------------------------------------------------------------
(* Time and shutdown.                                                      *)

Advance ==
    /\ phase # "stopped"
    /\ now < MaxTime
    /\ now' = now + 1
    /\ UNCHANGED <<ev, phase, pc, deadline, cycles, inflight, fetched, got, result,
                   emitted, found>>

\* `ctrl_c().await` completes: the body of start() returns and the drop of
\* the runtime of #[tokio::main] begins.
CtrlC ==
    /\ phase = "running"
    /\ phase' = "returned"
    /\ UNCHANGED <<ev, now, pc, deadline, cycles, inflight, fetched, got, result,
                   emitted, found>>

\* Tasks that outlive the runtime.
DropTaskDetached(p) == p

\* What dropping the runtime does to a task that is suspended on an await:
\* the task is dropped there.  The file read of fs::read_to_string runs on
\* the blocking pool and goes on without the task ("abandoned"); a task that
\* panicked is already gone.
DropTask(p) ==
    IF p = "tick" THEN "dropped"
    ELSE IF p = "read" THEN "abandoned"
    ELSE IF p \in InFlight THEN "cancelled"
    ELSE p

\* The runtime, being dropped, drops the task of job j at the await it is
\* suspended on.  The tasks are not dropped together: a task that is being
\* polled goes on to its next await first (Receive, Tick and the failure of
\* a read the closing blocking pool refuses stay possible for it).
TaskDropped(j) ==
    /\ phase = "returned"
    /\ pc[j] \in Alive
    /\ pc' = [pc EXCEPT ![j] = DropTask(pc[j])]
    /\ inflight' = [inflight EXCEPT ![j] = 0]
    /\ UNCHANGED <<ev, now, phase, deadline, cycles, fetched, got, result, emitted,
                   found>>

\* The file read of a dropped task returns on the blocking pool; nobody
\* receives its outcome.
AbandonedReadEnds(j) ==
    /\ pc[j] = "abandoned"
    /\ pc' = [pc EXCEPT ![j] = "cancelled"]
    /\ UNCHANGED <<ev, now, phase, deadline, cycles, inflight, fetched, got, result,
                   emitted, found>>

\* The drop of the runtime completes and start() returns to main: no task
\* is left to drop and the blocking pool has no read left to wait for.
RuntimeShutdown ==
    /\ phase = "returned"
    /\ \A j \in JobIds : DropTask(pc[j]) = pc[j] /\ pc[j] # "abandoned"
    /\ phase' = "stopped"
    /\ UNCHANGED <<ev, now, pc, deadline, cycles, inflight, fetched, got, result,
                   emitted, found>>

----------------------------------------------------------------------------
Next ==
    \/ \E j \in JobIds : Tick(j)
    \/ \E j \in JobIds : SendFail(j)
    \/ \E j \in JobIds : SendOk(j)
    \/ \E j \in JobIds : TextFail(j)
    \/ \E j \in JobIds : ReadFail(j)
    \/ \E j \in JobIds : \E d \in Docs : Receive(j, d)
    \/ Advance
    \/ CtrlC
    \/ \E j \in JobIds : TaskDropped(j)
    \/ \E j \in JobIds : AbandonedReadEnds(j)
    \/ RuntimeShutdown

Spec == Init /\ [][Next]_vars

\* What the runtime guarantees: time passes, a task whose timer is due is
\* polled, and once the body of start() has returned every task is dropped
\* and the drop of the runtime completes.  Nothing makes a pending request
\* or file read complete: the client is built without a timeout.
LiveSpec ==
    /\ Spec
    /\ WF_vars(Advance)
    /\ WF_vars(RuntimeShutdown)
    /\ \A j \in JobIds : WF_vars(Tick(j)) /\ WF_vars(TaskDropped(j))

----------------------------------------------------------------------------
(* The items of a query result.  An XpathItem is a node or not; a node is  *)
(* a tree node (element, text) or a non-tree node (attribute, namespace).  *)
(* An item set is ordered and holds an item once.                          *)

\* Largest item set a query yields.
MaxItems == 3

Item(i, k, t) == [id |-> i, kind |-> k, str |-> t]

Items ==
    { Item(1, "element", "h1"),
      Item(2, "text", "Hello"),
      Item(3, "attribute", "/list/page2"),
      Item(4, "attribute", "/list/page1"),
      Item(5, "namespace", "xml"),
      Item(6, "atomic", "42") }

ItemSets ==
    UNION { { s \in [1..n -> Items] : \A i, k \in 1..n : i # k => s[i] # s[k] }
            : n \in 0..MaxItems }

\* XpathItem::as_node, Node::as_tree_node, as_text_node, Node::as_non_tree_node,
\* NonTreeXpathNode::as_attribute_node: TRUE when the conversion is Ok.
AsNode(it) == it.kind # "atomic"
AsTreeNode(it) == it.kind \in {"element", "text"}
AsTextNode(it) == it.kind = "text"
AsNonTreeNode(it) == it.kind \in {"attribute", "namespace"}
AsAttributeNode(it) == it.kind = "attribute"

\* What applying a query gives: Err, or Ok with an item set.
QueryErr == [ok |-> FALSE, items |-> <<>>]
QueryOk(items) == [ok |-> TRUE, items |-> items]
QueryOutcomes == {QueryErr} \cup {QueryOk(s) : s \in ItemSets}

----------------------------------------------------------------------------
(* job.rs: ValueExtractor::extract and Continuation::evaluate.             *)

\* job::Value.
Unknown == [tag |-> "Unknown", str |-> ""]
String(t) == [tag |-> "String", str |-> t]

\* The value of one item: its text for a text node, Unknown otherwise.
ValueOf(it) ==
    IF AsNode(it) /\ AsTreeNode(it) /\ AsTextNode(it) THEN String(it.str) ELSE Unknown

\* An extractor that collects the text nodes only.
RECURSIVE ExtractTextOnly(_)
ExtractTextOnly(items) ==
    IF items = <<>> THEN <<>>
    ELSE IF AsTextNode(Head(items))
         THEN <<String(Head(items).str)>> \o ExtractTextOnly(Tail(items))
         ELSE ExtractTextOnly(Tail(items))

\* ValueExtractor::Text.extract: `items.iter().map(..).collect()`.
Extract(items) == [i \in 1..Len(items) |-> ValueOf(items[i])]

\* `filter_map` of Continuation::evaluate: the values of the attribute nodes.
RECURSIVE AttributeValues(_)
AttributeValues(items) ==
    IF items = <<>> THEN <<>>
    ELSE LET it == Head(items) IN
         IF AsNode(it) /\ AsNonTreeNode(it) /\ AsAttributeNode(it)
         THEN <<it.str>> \o AttributeValues(Tail(items))
         ELSE AttributeValues(Tail(items))

\* Continuation::evaluate, given what the continuation query yields on the
\* tree: nothing when the query fails, the attribute values otherwise.
Evaluate(q) == IF ~q.ok THEN <<>> ELSE AttributeValues(q.items)

\* The continuation lookup of handle(), given what the continuation query
\* yields on the tree: it takes `element.iter().next()` and reports the value
\* of that first item when it is an attribute node; every other arm only
\* logs.
HandleContinuation(q) ==
    IF ~q.ok THEN <<>>
    ELSE IF q.items = <<>> THEN <<>>
    ELSE LET it == Head(q.items) IN
         IF AsNode(it) /\ AsNonTreeNode(it) /\ AsAttributeNode(it)
         THEN <<it.str>>
         ELSE <<>>

----------------------------------------------------------------------------
(* main.rs: process_targets, and the call handle() makes of it.            *)

\* Largest number of nodes the root query yields, and of children of a node.
MaxRoots == 2
MaxChildren == 2

\* The query strings of the target trees.
Paths == {"//h1", "//p"}

\* What a path can yield when applied to a node.
PathOutcomes(p) ==
    IF p = "//h1"
    THEN {QueryErr, QueryOk(<<>>), QueryOk(<<Item(2, "text", "Hello")>>),
          QueryOk(<<Item(1, "element", "h1"), Item(2, "text", "Hello")>>)}
    ELSE {QueryErr, QueryOk(<<Item(2, "text", "Hello")>>)}

\* A node of the tree as the evaluator sees it: what each path yields when
\* applied to it, and the number of its immediate children.
Views ==
    { [apply |-> [p \in Paths |-> IF p = "//h1" THEN a ELSE b], children |-> c] :
        a \in PathOutcomes("//h1"), b \in PathOutcomes("//p"), c \in 0..MaxChildren }

\* A parsed document: the nodes its root query yields, in document order.
Trees == UNION { [1..n -> Views] : n \in 0..MaxRoots }

\* job::Target as main.rs matches it: Single { path, then } and Each(targets).
NoThen == [some |-> FALSE, sub |-> <<>>]
Then(sub) == [some |-> TRUE, sub |-> sub]
Single(p, then) == [kind |-> "Single", path |-> p, then |-> then]
Each(sub) == [kind |-> "Each", sub |-> sub]
Field(n, t) == [name |-> n, target |-> t]

\* The nested target tree of the configurations.
SubTargets == <<Field("title", Single("//h1", NoThen))>>

TargetChoices ==
    {Single(p, NoThen) : p \in Paths} \cup {Single("//h1", Then(SubTargets)), Each(SubTargets)}

\* job::Targets: an ordered map from field name to target, names unique.
TargetTrees ==
    {<<Field("A", t)>> : t \in TargetChoices}
    \cup {<<Field("A", t), Field("B", u)>> : t \in TargetChoices, u \in TargetChoices}

\* ProcessingResult.
PNode(entries) == [kind |-> "Node", entries |-> entries]
PLeaf(items) == [kind |-> "Leaf", items |-> items]
Panic == [kind |-> "Panic"]

\* The value process_targets gives a field whose query, if any, applied.
FieldValue(view, t) ==
    IF t.kind = "Single"
    THEN IF t.then.some THEN PNode(<<>>) ELSE PLeaf(view.apply[t.path].items)
    ELSE PNode(<<>>)

\* The query of a Single field failed on the node: the closure returns None.
FieldFails(view, t) == t.kind = "Single" /\ ~view.apply[t.path].ok

\* `targets.0.iter().filter_map(..).collect()`: the fields in declared
\* order, without those whose query failed.
RECURSIVE Entries(_, _)
Entries(view, fields) ==
    IF fields = <<>> THEN <<>>
    ELSE LET f == Head(fields) IN
         IF FieldFails(view, f.target)
         THEN Entries(view, Tail(fields))
         ELSE <<[name |-> f.name, value |-> FieldValue(view, f.target)]>>
              \o Entries(view, Tail(fields))

\* An evaluator that gives up on the whole node when one field fails.
ProcessTargetsAbort(view, targets) ==
    IF \E i \in 1..Len(targets) : FieldFails(view, targets[i].target)
    THEN PNode(<<>>)
    ELSE PNode(Entries(view, targets))

\* process_targets(tree, item, targets).
ProcessTargets(view, targets) == PNode(Entries(view, targets))

\* A handle() that evaluates the last node of the root item set.
EvaluateDocumentLast(tree, targets) ==
    IF tree = <<>> THEN Panic ELSE ProcessTargets(tree[Len(tree)], targets)

\* handle(): the targets are evaluated against the first item of the root
\* item set; indexing an empty set panics.
EvaluateDocument(tree, targets) ==
    IF tree = <<>> THEN Panic ELSE ProcessTargets(tree[1], targets)

\* A document is evaluated.
ApplyProcess ==
    /\ ev = Idle
    /\ \E tree \in Trees : \E targets \in TargetTrees :
        ev' = [op |-> "process", tree |-> tree, targets |-> targets,
               out |-> EvaluateDocument(tree, targets)]
    /\ UNCHANGED sched

\* A call of ValueExtractor::extract.
ApplyExtract ==
    /\ ev = Idle
    /\ \E items \in ItemSets :
        ev' = [op |-> "extract", items |-> items, values |-> Extract(items)]
    /\ UNCHANGED sched

\* A call of Continuation::evaluate.
ApplyEvaluate ==
    /\ ev = Idle
    /\ \E q \in QueryOutcomes :
        ev' = [op |-> "evaluate", query |-> q, list |-> Evaluate(q)]
    /\ UNCHANGED sched

\* The continuation lookup of a cycle.
ApplyContinuation ==
    /\ ev = Idle
    /\ \E q \in QueryOutcomes :
        ev' = [op |-> "continuation", query |-> q, list |-> HandleContinuation(q)]
    /\ UNCHANGED sched

EvalNext ==
    \/ ApplyExtract
    \/ ApplyEvaluate
    \/ ApplyContinuation
    \/ ApplyProcess

\* The functions of the evaluator, called on every input within the bounds.
EvalSpec == Init /\ [][EvalNext]_vars

----------------------------------------------------------------------------
(* Loading the configuration: main, load_config and ParsedXPath.           *)

\* Largest number of target queries of the job of a configuration.
MaxQueries == 2

\* Query strings a configuration file may hold, and those xpath::parse accepts.
RawQueries == {"//h1", "//p", "//a/@href", "//h1[", "//a/@"}
WellFormed == {"//h1", "//p", "//a/@href"}

\* xpath::parse(raw) is Ok.
XpathParse(raw) == raw \in WellFormed

\* A configuration as read: the raw target queries and the raw continuation
\* query of a job.
RawConfigs ==
    { [targets |-> t, continuation |-> c] :
        t \in UNION {[1..n -> RawQueries] : n \in 1..MaxQueries}, c \in RawQueries }

ParsedXPath(raw) == [raw |-> raw]

\* A deserializer that stores the string without compiling it.
DeserializeUnchecked(raw) == [ok |-> TRUE, value |-> ParsedXPath(raw)]

\* ParsedXPath::deserialize: the string is compiled; it is kept when that
\* succeeds and deserialization fails otherwise.
Deserialize(raw) == [ok |-> XpathParse(raw), value |-> ParsedXPath(raw)]

\* ParsedXPath::to_xpath: compiles the stored string again; TRUE when the
\* `expect` does not panic.
ToXpath(q) == XpathParse(q.raw)

\* The queries a loaded job holds.
HeldQueries(job) == {job.targets[i] : i \in 1..Len(job.targets)} \cup {job.continuation}

\* load_config and main: the job is deserialized; main goes on with the
\* loaded configuration or exits with a failure.
LoadConfig ==
    /\ ev.op = "config"
    /\ LET ts == [i \in 1..Len(ev.raw.targets) |-> Deserialize(ev.raw.targets[i])]
           c == Deserialize(ev.raw.continuation)
       IN
        IF c.ok /\ \A i \in 1..Len(ts) : ts[i].ok
        THEN ev' = [op |-> "loaded", raw |-> ev.raw,
                    job |-> [targets |-> [i \in 1..Len(ts) |-> ts[i].value],
                             continuation |-> c.value]]
        ELSE ev' = [op |-> "failed", raw |-> ev.raw]
    /\ UNCHANGED sched

\* start(): the task of the loaded job is spawned.
StartTasks ==
    /\ ev.op = "loaded"
    /\ ev' = [op |-> "started", raw |-> ev.raw, job |-> ev.job,
              used |-> {}, panicked |-> FALSE]
    /\ UNCHANGED sched

\* A cycle obtains the compiled form of one of the job's queries.
UseQuery(q) ==
    /\ ev.op = "started"
    /\ ~ev.panicked
    /\ q \in HeldQueries(ev.job)
    /\ ev' = [ev EXCEPT !.used = @ \cup {q}, !.panicked = ~ToXpath(q)]
    /\ UNCHANGED sched

LoadInit ==
    /\ now = 0
    /\ phase = "running"
    /\ pc = [j \in JobIds |-> "tick"]
    /\ deadline = [j \in JobIds |-> 0]
    /\ cycles = [j \in JobIds |-> 0]
    /\ inflight = [j \in JobIds |-> 0]
    /\ fetched = [j \in JobIds |-> <<>>]
    /\ got = [j \in JobIds |-> NoFetch]
    /\ result = [j \in JobIds |-> None]
    /\ emitted = [j \in JobIds |-> FALSE]
    /\ found = [j \in JobIds |-> None]
    /\ ev \in {[op |-> "config", raw |-> c] : c \in RawConfigs}

LoadNext ==
    \/ LoadConfig
    \/ StartTasks
    \/ \E q \in {ParsedXPath(r) : r \in RawQueries} : UseQuery(q)

\* The start of the program, from every configuration within the bounds.
LoadSpec == LoadInit /\ [][LoadNext]_vars

----------------------------------------------------------------------------
(* Properties.                                                             *)


IsUrlJob(j) == Jobs[j].resource.kind = "Url"
IsPathJob(j) == Jobs[j].resource.kind = "Path"

\* C1: two drains of one job never overlap: at most one call of handle() of
\* a job has not returned, also when the drain outlasts the period.
C1_NoOverlap == \A j \in JobIds : inflight[j] <= 1

\* A drain still in flight when the job's next deadline has passed.
C1_Witness ==
    \E j \in JobIds : pc[j] \in InFlight /\ now >= deadline[j] /\ inflight[j] = 1

\* C2 as stated: no cycle of a job runs before one full period has elapsed.
C2_NoEagerRun == \A j \in JobIds : cycles[j] > 0 => now >= Period(j)

\* C2 amended: the first cycle may run at once (the first tick of the
\* interval completes immediately); the k-th cycle of a job starts no
\* earlier than k-1 periods after start.
C2_TickSchedule ==
    \A j \in JobIds : cycles[j] > 0 => now >= (cycles[j] - 1) * Period(j)

\* The first cycle in flight at time 0.
C2_Witness == \E j \in JobIds : now = 0 /\ cycles[j] = 1 /\ pc[j] \in InFlight

\* C3: jobs are independent: whenever job b waits on its timer and its
\* deadline is reached, its cycle can start, whatever drain of another job
\* is in flight.
C3_Independent ==
    \A a \in JobIds : \A b \in JobIds \ {a} :
        (pc[a] \in InFlight /\ pc[b] = "tick" /\ now >= deadline[b]
            /\ phase # "stopped")
        => ENABLED Tick(b)

\* One job has started its second cycle while the first cycle of the other
\* is still in flight.
C3_Witness ==
    \E a \in JobIds : \E b \in JobIds \ {a} :
        pc[a] \in InFlight /\ cycles[a] = 1 /\ pc[b] \in InFlight /\ cycles[b] = 2

\* C4 as stated: no failure of a cycle terminates the job's task, also for a
\* document whose root query matches nothing.
C4_TaskSurvives ==
    \A j \in JobIds : (cycles[j] > 0 /\ phase = "running") => pc[j] \in Alive

\* C5: every cycle starts from the job's configured resource.
C5_StartsFromBase ==
    \A j \in JobIds : cycles[j] > 0 =>
        (fetched[j] # <<>> /\ Head(fetched[j]) = Jobs[j].resource)

\* A second cycle in flight.
C5_Witness ==
    \E j \in JobIds :
        cycles[j] >= 2 /\ pc[j] \in InFlight /\ fetched[j] = <<Jobs[j].resource>>

\* C6 as stated: in a cycle of a Url job, a resolved continuation is queued
\* behind the base resource and fetched in that same cycle.
C6_ContinuationFetched ==
    \A j \in JobIds :
        (IsUrlJob(j) /\ pc[j] = "tick" /\ found[j] # None)
        => (Len(fetched[j]) >= 2 /\ Head(fetched[j]) = Jobs[j].resource)

\* Expansion as the specification states it (the code derives no resource):
\* the Url that continuation c of the page https://example.com/list/page1
\* stands for.
DerivedUrl(c) ==
    [kind |-> "Url",
     loc |-> IF c = "/list/page1" THEN "https://example.com/list/page1"
                                  ELSE "https://example.com/list/page2"]

\* The crawl queue as the specification states it (the code has no queue):
\* the resources a cycle of job j is to fetch, the base resource and, for a
\* Url job, the Url derived from a resolved continuation.
Queued(j) ==
    {Jobs[j].resource}
    \cup (IF IsUrlJob(j) /\ found[j] # None THEN {DerivedUrl(found[j])} ELSE {})

\* A fetch or a parse failed in the last cycle of job j.
FailedIn(j) == got[j] # NoFetch /\ (~IsDoc(got[j]) \/ ~got[j].parse)

\* C7 as stated: a failure on one resource does not end the drain: when a
\* cycle is over every resource it had queued has been popped and fetched,
\* and a resource whose fetch or parse failed was skipped, the cycle coming
\* to its normal end.
C7_FailureSkipped ==
    \A j \in JobIds :
        (pc[j] = "tick" /\ cycles[j] > 0) =>
            /\ \A r \in Queued(j) : \E i \in 1..Len(fetched[j]) : fetched[j][i] = r
            /\ FailedIn(j) => result[j] = "Ok"

\* C8 as stated: every started cycle eventually ends.
C8_EveryCycleEnds ==
    \A j \in JobIds : (pc[j] \in InFlight) ~> (pc[j] \notin InFlight)

\* C8 amended: a cycle is over as soon as the fetch of its one resource
\* completes, with a body or with an error, whatever the document and its
\* continuation (also one that leads back to the resource the cycle started
\* from): a cycle in flight holds exactly the job's base resource, each step
\* of it either ends it or is the response of the request arriving, and
\* nothing is left when it is over.  A fetch that never completes keeps the
\* cycle in flight for ever.
C8_CycleBounded ==
    /\ [](\A j \in JobIds : pc[j] \in InFlight => fetched[j] = <<Jobs[j].resource>>)
    /\ [](\A j \in JobIds : Len(fetched[j]) <= 1)
    /\ [][\A j \in JobIds :
            (pc[j] \in InFlight /\ pc'[j] # pc[j])
            => (pc'[j] \notin InFlight \/ (pc[j] = "send" /\ pc'[j] = "text"))]_vars

\* A finished cycle whose document continues to the job's own resource.
C8_Witness ==
    \E j \in JobIds :
        /\ pc[j] = "tick" /\ result[j] = "Ok"
        /\ IsUrlJob(j) /\ found[j] = "/list/page1"

\* C9: a job on a local path never expands its queue: a cycle fetches the
\* base path and nothing else, and is over once a continuation is reported.
C9_PathNoExpansion ==
    \A j \in JobIds : IsPathJob(j) =>
        /\ Len(fetched[j]) <= 1
        /\ found[j] # None => (pc[j] \notin InFlight /\ fetched[j] = <<Jobs[j].resource>>)

\* A finished cycle of a path job that reported a continuation.
C9_Witness ==
    \E j \in JobIds :
        IsPathJob(j) /\ pc[j] = "tick" /\ found[j] # None /\ result[j] = "Ok"

\* C10 as stated: once the interrupt is received no new cycle starts, and a
\* drain in flight is not cancelled.
C10_NoCancel ==
    [][/\ phase # "running" => cycles' = cycles
       /\ \A j \in JobIds : pc'[j] # "cancelled"]_vars

\* C10 amended: on the interrupt start() returns and the runtime is dropped;
\* once it is dropped no cycle starts and no task runs.  A task is dropped
\* only after the interrupt and at the await it is suspended on: a task
\* waiting on its timer there, a drain at its fetch, which it does not
\* complete (nothing of its cycle is recorded).
C10_Shutdown ==
    /\ [](phase = "stopped" =>
            \A j \in JobIds : pc[j] \notin Alive /\ inflight[j] = 0)
    /\ [][phase = "stopped" => UNCHANGED <<cycles, fetched, got, result>>]_vars
    /\ [][\A j \in JobIds :
            (pc[j] \in Alive /\ pc'[j] \notin Alive /\ pc'[j] # "panicked") =>
                /\ phase = "returned"
                /\ pc[j] = "tick" => pc'[j] = "dropped"
                /\ pc[j] \in InFlight =>
                    /\ pc'[j] \in {"cancelled", "abandoned"}
                    /\ got'[j] = got[j] /\ result'[j] = None]_vars

\* The runtime is shut down and a drain was cut at its fetch.
C10_Witness == phase = "stopped" /\ \E j \in JobIds : pc[j] = "cancelled"

\* Positions of the attribute nodes of an item set.
AttrPositions(items) == {i \in 1..Len(items) : items[i].kind = "attribute"}

\* C14 as stated: continuation resolution, in Continuation::evaluate and in
\* the cycle, returns the values of exactly the matched attribute nodes, all
\* of them and in match order, not only the first match; a failed query and
\* a query without a match give the empty list.
C14_AllAttributes ==
    ev.op \in {"evaluate", "continuation"} =>
        LET items == ev.query.items
            pos == AttrPositions(items)
        IN
        /\ ~ev.query.ok => ev.list = <<>>
        /\ ev.query.ok =>
            /\ Len(ev.list) = Cardinality(pos)
            /\ \A i \in pos :
                ev.list[Cardinality({k \in pos : k <= i})] = items[i].str

\* C17: text extraction gives one value per item, in order: the text of a
\* text node, Unknown for any other item.
C17_ExtractTotal ==
    ev.op = "extract" =>
        /\ Len(ev.values) = Len(ev.items)
        /\ \A i \in 1..Len(ev.items) :
            /\ ev.items[i].kind = "text" => ev.values[i] = String(ev.items[i].str)
            /\ ev.items[i].kind # "text" => ev.values[i] = Unknown

\* An item set that mixes a text node with items that are no text.
C17_Witness ==
    /\ ev.op = "extract" /\ Len(ev.items) = 3
    /\ \E i, k \in 1..3 : ev.items[i].kind = "text" /\ ev.items[k].kind = "atomic"
    /\ Len(ev.values) = 3

\* The key the specification gives the i-th entry of a fan-out, counted
\* from 0 (the code has no fan-out).
IndexKey(i) == "[" \o ToString(i) \o "]"

\* A document was evaluated and gave a result.
Processed == ev.op = "process" /\ ev.out.kind = "Node"

\* Positions of the fields whose query did not fail on the first root node.
KeptFields == {i \in 1..Len(ev.targets) : ~FieldFails(ev.tree[1], ev.targets[i].target)}

\* C11 as stated: every field of the target tree has an entry in the result,
\* a field whose query fails included.
C11_FailingFieldKept ==
    Processed =>
        \A i \in 1..Len(ev.targets) :
            \E k \in 1..Len(ev.out.entries) : ev.out.entries[k].name = ev.targets[i].name

\* C11 amended: a field whose query fails is left out of the result; the
\* other fields are all there, in declared order, each with the value it has
\* when it is evaluated alone (for a leaf field, the items its query yields).
C11_FailingFieldOmitted ==
    Processed =>
        /\ Len(ev.out.entries) = Cardinality(KeptFields)
        /\ \A i \in KeptFields :
            LET e == ev.out.entries[Cardinality({k \in KeptFields : k <= i})]
                t == ev.targets[i].target
            IN
            /\ e.name = ev.targets[i].name
            /\ <<e>> = ProcessTargets(ev.tree[1], <<ev.targets[i]>>).entries
            /\ (t.kind = "Single" /\ ~t.then.some)
                => e.value = PLeaf(ev.tree[1].apply[t.path].items)
        /\ \A i \in (1..Len(ev.targets)) \ KeptFields :
            \A k \in 1..Len(ev.out.entries) : ev.out.entries[k].name # ev.targets[i].name

\* Field A applies and yields items, field B fails.
C11_Witness ==
    /\ Processed /\ Len(ev.targets) = 2
    /\ ~FieldFails(ev.tree[1], ev.targets[1].target)
    /\ FieldFails(ev.tree[1], ev.targets[2].target)
    /\ Len(ev.out.entries) = 1
    /\ ev.out.entries[1].value.kind = "Leaf"
    /\ ev.out.entries[1].value.items # <<>>

\* Every field of the target tree is a Single without `then`.
AllLeaves(targets) ==
    \A i \in 1..Len(targets) :
        targets[i].target.kind = "Single" /\ ~targets[i].target.then.some

\* C12 as stated: for a target tree of leaf Single targets and a root query
\* that matches N nodes (here N >= 1), the result is a Group of exactly N entries keyed
\* "[0]" .. "[N-1]", the i-th being the Group of field results of node i.
C12_FanOut ==
    (ev.op = "process" /\ AllLeaves(ev.targets) /\ ev.tree # <<>>) =>
        /\ ev.out.kind = "Node"
        /\ Len(ev.out.entries) = Len(ev.tree)
        /\ \A i \in 1..Len(ev.tree) :
            /\ ev.out.entries[i].name = IndexKey(i - 1)
            /\ ev.out.entries[i].value = ProcessTargets(ev.tree[i], ev.targets)

\* C12 amended: for N >= 1 matched nodes the result is one Group, that of
\* the first matched node alone, keyed by field name without an index
\* level: one entry per field whose query applies to that node, in declared
\* order, holding the items the query yields; for N = 0 no result is
\* produced.
C12_FirstNodeOnly ==
    (ev.op = "process" /\ AllLeaves(ev.targets)) =>
        /\ ev.tree = <<>> => ev.out = Panic
        /\ ev.tree # <<>> =>
            /\ ev.out.kind = "Node"
            /\ Len(ev.out.entries) = Cardinality(KeptFields)
            /\ \A i \in KeptFields :
                ev.out.entries[Cardinality({k \in KeptFields : k <= i})]
                    = [name |-> ev.targets[i].name,
                       value |-> PLeaf(ev.tree[1].apply[ev.targets[i].target.path].items)]

\* Two matched nodes on which the field yields different items; the result
\* is that of the first.
C12_Witness ==
    /\ ev.op = "process" /\ AllLeaves(ev.targets)
    /\ Len(ev.tree) = 2 /\ Len(ev.targets) = 1
    /\ ev.tree[1].apply["//h1"] = QueryOk(<<Item(2, "text", "Hello")>>)
    /\ ev.tree[2].apply["//h1"] = QueryOk(<<>>)
    /\ ev.out = PNode(<<[name |-> "A", value |-> PLeaf(<<Item(2, "text", "Hello")>>)]>>)

\* C13 as stated: the result of an Each field is a Group with one entry per
\* immediate child of the node, keyed by ordinal position.
C13_EachChild ==
    Processed =>
        \A i \in 1..Len(ev.targets) :
            ev.targets[i].target.kind = "Each" =>
                \E k \in 1..Len(ev.out.entries) :
                    LET e == ev.out.entries[k] IN
                    /\ e.name = ev.targets[i].name
                    /\ e.value.kind = "Node"
                    /\ Len(e.value.entries) = ev.tree[1].children
                    /\ \A c \in 1..Len(e.value.entries) :
                        e.value.entries[c].name = IndexKey(c - 1)

\* C19 as stated: the result of a Single field with `then` whose query
\* applies is the evaluation of the nested targets against the yielded
\* nodes: a Group with one entry per node, keyed by ordinal index, when
\* more than one node is yielded, and an empty Group when none is.
C19_ThenDescends ==
    Processed =>
        \A i \in KeptFields :
            LET t == ev.targets[i].target
                e == ev.out.entries[Cardinality({k \in KeptFields : k <= i})]
            IN
            (t.kind = "Single" /\ t.then.some) =>
                LET n == Len(ev.tree[1].apply[t.path].items) IN
                /\ e.value.kind = "Node"
                /\ n = 0 => e.value.entries = <<>>
                /\ n > 1 =>
                    /\ Len(e.value.entries) = n
                    /\ \A c \in 1..n : e.value.entries[c].name = IndexKey(c - 1)

\* C15: a continuation query that fails, a first match that is no attribute
\* node, or no match at all does not abort the cycle: the resolver gives the
\* empty list for a failed query, the target result of the resource is
\* emitted and handle() returns Ok.
C15_ContinuationFailureHarmless ==
    /\ Evaluate(QueryErr) = <<>>
    /\ \A j \in JobIds :
        (pc[j] = "tick" /\ IsDoc(got[j]) /\ got[j].parse /\ got[j].roots > 0
            /\ got[j].cont.kind # "attr")
        => (result[j] = "Ok" /\ emitted[j] /\ found[j] = None)

\* A finished cycle whose continuation query failed.
C15_Witness ==
    \E j \in JobIds :
        /\ pc[j] = "tick" /\ IsDoc(got[j]) /\ got[j].cont.kind = "queryErr"
        /\ result[j] = "Ok" /\ emitted[j]

\* C18 as stated: for a Url resource a continuation is combined with the
\* request URL by replacing its path: from https://example.com/list/page1,
\* both /list/page2 and page2 derive https://example.com/list/page2, which
\* the cycle goes on to fetch.
C18_UrlExpansion ==
    \A j \in JobIds :
        (pc[j] = "tick" /\ Jobs[j].resource = UrlPage1
            /\ found[j] \in {"/list/page2", "page2"})
        => \E i \in 1..Len(fetched[j]) :
            fetched[j][i] = [kind |-> "Url", loc |-> "https://example.com/list/page2"]

\* The raw queries of a configuration.
RawOf(raw) == {raw.targets[i] : i \in 1..Len(raw.targets)} \cup {raw.continuation}

\* C20: every query a loaded job holds was accepted by the compiler when the
\* configuration was loaded: loading fails, and no task is started, when a
\* query is malformed, and obtaining a compiled query never fails afterwards.
C20_QueriesCompiled ==
    /\ ev.op \in {"loaded", "started"} =>
        /\ \A r \in RawOf(ev.raw) : XpathParse(r)
        /\ \A q \in HeldQueries(ev.job) : XpathParse(q.raw)
        /\ HeldQueries(ev.job) = {ParsedXPath(r) : r \in RawOf(ev.raw)}
    /\ ev.op = "failed" => \E r \in RawOf(ev.raw) : ~XpathParse(r)
    /\ ev.op = "started" => ~ev.panicked

\* A started job all of whose queries have been compiled again in a cycle.
C20_Witness ==
    /\ ev.op = "started"
    /\ Len(ev.job.targets) = 2
    /\ ev.used = HeldQueries(ev.job)
    /\ ~ev.panicked

====
